---- MODULE Spec2Model ----
(***************************************************************************)
(* Model of the crawl orchestration engine (batched crawlWebsite) together *)
(* with the URL utilities it calls.  One crawlWebsite invocation is        *)
(* modelled down to its await points: every action is one synchronous run  *)
(* of JavaScript between two suspension points.                            *)
(***************************************************************************)
EXTENDS Integers, Sequences, FiniteSets, Bags, TLC

\* ------------------------------------------------------------------------
\* Program constants
\* ------------------------------------------------------------------------
MAX_CONCURRENT_PAGES == 3
CONCURRENT_CRAWLS == 3
BATCH_SIZE == 5

LANGUAGE_CODES ==
    {"en", "ar", "fr", "es", "de", "it", "ru", "zh", "ja", "ko", "nl", "pl",
     "pt", "tr", "vi", "th", "id", "ms", "hi"}

\* ------------------------------------------------------------------------
\* Bounds of the model
\* ------------------------------------------------------------------------
\* the largest page budget a caller passes (besides 0, 1, 2 and 3)
MaxBudget == 13

\* the number of crawlWebsite invocations that overlap in one process
MaxOverlap == 4

Runs == 1..MaxOverlap

\* the number of browser launches in one process, over successive runs
MaxLaunches == 2

\* the longest path (in segments) of a URL handed to the normalizer on its own
MaxSegs == 2

\* ------------------------------------------------------------------------
\* URLs.  A URL string is modelled by what the platform parser makes of it:
\* whether it parses, its hostname, the sequence of its non-empty path
\* segments, whether the path ends in a slash, whether it has a fragment,
\* and the sequence of its query parameters (key k, value v).
\* host = "" stands for a relative reference (only meaningful for links).
\* ------------------------------------------------------------------------
Url(h, p) ==
    [valid |-> TRUE, host |-> h, path |-> p, trail |-> FALSE, frag |-> FALSE,
     query |-> <<>>]

NotAUrl ==
    [valid |-> FALSE, host |-> "", path |-> <<>>, trail |-> FALSE, frag |-> FALSE,
     query |-> <<>>]

\* String.prototype.toLowerCase on the segments the model uses
toLowerCase(s) ==
    CASE s = "EN" -> "en"
      [] s = "P" -> "p"
      [] s = "B" -> "b"
      [] OTHER -> s

LowerPath(p) == [i \in 1..Len(p) |-> toLowerCase(p[i])]

\* removeLanguagePrefix: drops the first non-empty segment when its lower-case
\* form is a language code; the re-joined path then has no trailing slash.
removeLanguagePrefix(u) ==
    IF Len(u.path) > 0 /\ toLowerCase(u.path[1]) \in LANGUAGE_CODES
    THEN [u EXCEPT !.path = Tail(u.path), !.trail = FALSE]
    ELSE u

\* a.localeCompare(b) on the query keys the model uses, as a rank: letters
\* in alphabetical order, the lower-case form of a letter before its
\* upper-case form
KeyRank(k) ==
    CASE k = "a" -> 1
      [] k = "b" -> 2
      [] k = "B" -> 3
      [] OTHER -> 4

\* Array.prototype.sort of the [key, value] entries by key: stable
SortParams(q) ==
    LET lvl(r) == SelectSeq(q, LAMBDA e : KeyRank(e.k) = r)
    IN  lvl(1) \o lvl(2) \o lvl(3) \o lvl(4)

LowerParams(q) ==
    [i \in 1..Len(q) |-> [k |-> toLowerCase(q[i].k), v |-> toLowerCase(q[i].v)]]

\* normalizeUrl on a URL that parses: fragment dropped, language prefix
\* removed (once), trailing slashes removed, query parameters sorted by
\* key, result lower-cased.
normalizeUrl(u) ==
    LET a == [u EXCEPT !.frag = FALSE]
        b == removeLanguagePrefix(a)
        c == [b EXCEPT !.trail = FALSE]
        d == [c EXCEPT !.query = SortParams(c.query)]
    IN  [d EXCEPT !.path = LowerPath(d.path), !.query = LowerParams(d.query)]

\* new URL(s) does not throw
Parses(s) == s.valid

\* isValidUrl that accepts every string
isValidUrl_AcceptsAll(s) == TRUE

isValidUrl(s) == Parses(s)

\* getBaseDomain: hostname, or "" when the string does not parse
getBaseDomain(u) == IF Parses(u) THEN u.host ELSE ""

\* new URL(link, baseUrl): a relative reference takes the base's host
ResolveLink(link, base) ==
    IF link.host = "" THEN [link EXCEPT !.host = base.host] ELSE link

\* isResourceUrl, restricted to the patterns a path or host can match:
\* a resource extension at the end of the URL, or a resource directory name
\* between two slashes (the slashes after the scheme count).
ResourceDirs == {"static", "assets", "images", "img", "fonts", "css", "js"}

ResourceFiles == {"a.js", "b.png"}

\* the image resize and quality parameters, when first in the query string
ResizeParams == {"q", "w", "h", "quality", "size", "width", "height"}

isResourceUrl(u) ==
    \/ u.host \in ResourceDirs
    \/ \E i \in 1..Len(u.path) :
          /\ u.path[i] \in ResourceDirs
          /\ (i < Len(u.path) \/ u.trail)
    \/ /\ Len(u.path) > 0
       /\ ~u.trail
       /\ toLowerCase(u.path[Len(u.path)]) \in ResourceFiles
    \/ /\ Len(u.query) > 0
       /\ toLowerCase(u.query[1].k) \in ResizeParams

\* ------------------------------------------------------------------------
\* The inputs of a run: start URLs, the links a page can carry, the analyses
\* the classifier can return and the places a navigation can end.
\* ------------------------------------------------------------------------
RootUrl == [Url("shop", <<>>) EXCEPT !.trail = TRUE]

StartUrls == {RootUrl, NotAUrl}

MaxPagesChoices == {0, 1, 2, 3, MaxBudget}

Lp1 == Url("shop", <<"p", "1">>)
Lp1en == [Url("shop", <<"EN", "P", "1">>) EXCEPT !.frag = TRUE]
Lfrx == Url("shop", <<"en", "fr", "x">>)
Lx == Url("shop", <<"x">>)
Lc2 == [Url("shop", <<"c", "2">>) EXCEPT !.trail = TRUE]
Ljs == Url("shop", <<"static", "a.js">>)
Loff == Url("other", <<"p", "9">>)
Lrel == Url("", <<"q">>)
Ln == Url("shop", <<"n">>)
Lw == [Url("shop", <<"EN", "w">>) EXCEPT !.trail = TRUE]
Lr1 == Url("shop", <<"static", "r1">>)
Lr2 == Url("shop", <<"static", "r2">>)
Lr3 == Url("shop", <<"static", "r3">>)
Lr4 == Url("shop", <<"static", "r4">>)
Lbad == NotAUrl

NoProduct == 0

Analysis(t, p, pl, pg, cl, ol) ==
    [pageType |-> t, product |-> p, productLinks |-> pl,
     paginationLinks |-> pg, categoryLinks |-> cl, otherRelevantLinks |-> ol]

\* what analyzePageWithGemini returns when the call or the parse fails:
\* { pageType: "other" }, all other fields absent
FailedAnalysis == Analysis("other", NoProduct, <<>>, <<>>, <<>>, <<>>)

\* The site the renderer and the classifier are stubbed with.
\* FinalUrls: where a navigation to url can end (itself, or a redirect).
Redirected == Url("other", <<"r">>)

FinalUrls(url) ==
    IF url.path \in {<<"p", "1">>, <<"c", "2">>} THEN {url, Redirected} ELSE {url}

\* PageAnalyses: what the classifier can answer for the page at finalUrl
PageAnalyses(finalUrl) ==
    CASE finalUrl.host = "other" ->
            {Analysis("listing", NoProduct, <<Lrel>>, <<>>, <<Ln>>, <<>>)}
      [] finalUrl.path = <<>> ->
            {Analysis("listing", 1, <<Lp1, Lp1en, Lfrx>>, <<Lc2>>, <<Lc2, Lp1>>,
                      <<Lx, Ljs, Loff, Lrel, Lbad, Lr1, Lr2, Lr3, Lr4>>),
             Analysis("product", 1, <<Lx>>, <<>>, <<>>, <<>>),
             Analysis("listing", NoProduct, <<Lw>>, <<>>, <<>>, <<>>),
             Analysis("listing", NoProduct, <<Lfrx>>, <<>>, <<>>, <<>>)}
      [] finalUrl.path = <<"p", "1">> ->
            {Analysis("product", 1, <<Lx>>, <<>>, <<>>, <<Ln>>)}
      [] finalUrl.path = <<"fr", "x">> ->
            {Analysis("product", 2, <<>>, <<>>, <<>>, <<Lrel, Ln>>)}
      [] finalUrl.path = <<"x">> ->
            {Analysis("product", 1, <<>>, <<>>, <<>>, <<Ln, Lfrx>>)}
      [] finalUrl.path = <<"c", "2">> ->
            {Analysis("listing", NoProduct, <<Lp1, Ln>>, <<>>, <<>>, <<Loff>>)}
      [] finalUrl.path = <<"q">> ->
            {Analysis("product", NoProduct, <<>>, <<>>, <<>>, <<Lfrx>>)}
      [] OTHER ->
            {Analysis("product", 2, <<>>, <<>>, <<>>, <<>>)}

\* ------------------------------------------------------------------------
\* Pure helpers of the crawler
\* ------------------------------------------------------------------------
Min(a, b) == IF a < b THEN a ELSE b

\* a frontier left in insertion order
SortByPriority_NoSort(q) == q

\* pendingUrls.sort((a, b) => b.priority - a.priority): stable, descending
SortByPriority(q) ==
    LET lvl(k) == SelectSeq(q, LAMBDA e : e.priority = k)
    IN  lvl(3) \o lvl(2) \o lvl(1)

\* chunk(array, size)
chunk(array, size) ==
    [i \in 1..((Len(array) + size - 1) \div size) |->
        SubSeq(array, (i - 1) * size + 1, Min(i * size, Len(array)))]

RECURSIVE Flatten(_)
Flatten(ss) == IF ss = <<>> THEN <<>> ELSE Head(ss) \o Flatten(Tail(ss))

\* processUrl that keeps links of every hostname
RECURSIVE processUrl_AnyDomain(_, _, _, _, _)
processUrl_AnyDomain(links, priority, baseUrl, baseDomain, visited) ==
    IF links = <<>> THEN <<>>
    ELSE LET link == Head(links)
             rest == processUrl_AnyDomain(Tail(links), priority, baseUrl, baseDomain, visited)
         IN  IF ~Parses(link) THEN rest
             ELSE LET normalizedLink == normalizeUrl(ResolveLink(link, baseUrl))
                  IN  IF normalizedLink \notin visited
                      THEN <<[url |-> normalizedLink, priority |-> priority]>> \o rest
                      ELSE rest

\* processUrl inside processNewUrls, for the links of one category
RECURSIVE processUrl(_, _, _, _, _)
processUrl(links, priority, baseUrl, baseDomain, visited) ==
    IF links = <<>> THEN <<>>
    ELSE LET link == Head(links)
             rest == processUrl(Tail(links), priority, baseUrl, baseDomain, visited)
         IN  IF ~Parses(link) THEN rest
             ELSE LET normalizedLink == normalizeUrl(ResolveLink(link, baseUrl))
                  IN  IF getBaseDomain(normalizedLink) = baseDomain
                         /\ normalizedLink \notin visited
                      THEN <<[url |-> normalizedLink, priority |-> priority]>> \o rest
                      ELSE rest

\* a processNewUrls that walks the categories in the opposite order
processNewUrls_OtherFirst(baseUrl, baseDomain, visited, pageAnalysis) ==
    processUrl(pageAnalysis.otherRelevantLinks, 1, baseUrl, baseDomain, visited)
    \o processUrl(pageAnalysis.categoryLinks, 2, baseUrl, baseDomain, visited)
    \o processUrl(pageAnalysis.paginationLinks, 2, baseUrl, baseDomain, visited)
    \o processUrl(pageAnalysis.productLinks, 3, baseUrl, baseDomain, visited)

\* processNewUrls: product links 3, pagination and category links 2, other 1
processNewUrls(baseUrl, baseDomain, visited, pageAnalysis) ==
    processUrl(pageAnalysis.productLinks, 3, baseUrl, baseDomain, visited)
    \o processUrl(pageAnalysis.paginationLinks, 2, baseUrl, baseDomain, visited)
    \o processUrl(pageAnalysis.categoryLinks, 2, baseUrl, baseDomain, visited)
    \o processUrl(pageAnalysis.otherRelevantLinks, 1, baseUrl, baseDomain, visited)

\* newUrls.forEach(... if (!visitedUrls.has) { add; push }): the entries
\* actually pushed, in order
RECURSIVE PushedOf(_, _)
PushedOf(newUrls, visited) ==
    IF newUrls = <<>> THEN <<>>
    ELSE IF Head(newUrls).url \in visited
         THEN PushedOf(Tail(newUrls), visited)
         ELSE <<Head(newUrls)>> \o PushedOf(Tail(newUrls), visited \cup {Head(newUrls).url})

UrlsOf(entries) == {entries[i].url : i \in 1..Len(entries)}

\* deduplicateProducts: first record per url
RECURSIVE deduplicateProducts(_)
deduplicateProducts(ps) ==
    IF ps = <<>> THEN <<>>
    ELSE LET front == deduplicateProducts(SubSeq(ps, 1, Len(ps) - 1))
             last == ps[Len(ps)]
         IN  IF \E i \in 1..Len(front) : front[i].url = last.url
             THEN front
             ELSE Append(front, last)

\* ------------------------------------------------------------------------
\* State
\* ------------------------------------------------------------------------
VARIABLES
    pc,               \* where the crawlWebsite invocation stands
    startUrl,         \* its arguments
    maxPages,
    baseDomain,       \* its locals
    visitedUrls,
    pendingUrls,
    products,
    seenProductUrls,
    urlCache,
    tasks,            \* the per-URL async callbacks of the current batch
    result,           \* the CrawlResult the invocation resolved with
    browser,          \* module state: 0 is null, else the launch it came from
    pagePool,         \* module state: pages, each named by the launch that made it
    launches,         \* number of puppeteer.launch calls made
    initError,        \* initBrowser threw in this invocation
    dispatched,       \* bag of URLs passed to fetchPage
    popped,           \* bag of URLs spliced out of pendingUrls
    pushed,           \* bag of URLs put into pendingUrls (the seed included)
    classified,       \* bag of URLs passed to analyzePageWithGemini
    failed,           \* URLs whose fetch or classification failed
    nPc,              \* the normalizer exercised on its own: where it stands
    nA,               \* a URL
    nB,               \* a URL that differs from nA in one superficial respect
    nKeyA,            \* normalizeUrl(nA)
    nKeyB,            \* normalizeUrl(nB)
    nKeyAA,           \* normalizeUrl(normalizeUrl(nA))
    rPc,              \* overlapping one-page invocations: where each stands
    rPage,            \* the session the fetchPage of each holds (0: none)
    rFetched          \* whether the fetch of each gave it the page

vars == <<pc, startUrl, maxPages, baseDomain, visitedUrls, pendingUrls, products,
          seenProductUrls, urlCache, tasks, result, browser, pagePool, launches,
          initError, dispatched, popped, pushed, classified, failed,
          nPc, nA, nB, nKeyA, nKeyB, nKeyAA, rPc, rPage, rFetched>>

otherVars == <<rPc, rPage, rFetched>>

normVars == <<nPc, nA, nB, nKeyA, nKeyB, nKeyAA>>

runLocals == <<baseDomain, visitedUrls, pendingUrls, products, seenProductUrls, urlCache>>
history == <<dispatched, popped, pushed, classified, failed>>

NoError == "undefined"
NoResult == [products |-> <<>>, visitedUrls |-> {}, error |-> "pending"]

EmptyCache == [u \in {} |-> FailedAnalysis]

\* the module just loaded, no invocation yet
IdleCrawler ==
    /\ pc = "idle"
    /\ startUrl = NotAUrl
    /\ maxPages = 0
    /\ baseDomain = ""
    /\ visitedUrls = {}
    /\ pendingUrls = <<>>
    /\ products = <<>>
    /\ seenProductUrls = {}
    /\ urlCache = EmptyCache
    /\ tasks = <<>>
    /\ result = NoResult
    /\ browser = 0
    /\ pagePool = <<>>
    /\ launches = 0
    /\ initError = FALSE
    /\ dispatched = EmptyBag
    /\ popped = EmptyBag
    /\ pushed = EmptyBag
    /\ classified = EmptyBag
    /\ failed = {}
    /\ rPc = [r \in Runs |-> "idle"]
    /\ rPage = [r \in Runs |-> 0]
    /\ rFetched = [r \in Runs |-> FALSE]

Init ==
    /\ IdleCrawler
    /\ nPc = "off"
    /\ nA = NotAUrl /\ nB = NotAUrl
    /\ nKeyA = NotAUrl /\ nKeyB = NotAUrl /\ nKeyAA = NotAUrl

BagAdd(b, u) == b (+) SetToBag({u})

RECURSIVE BagAddAll(_, _)
BagAddAll(b, us) ==
    IF us = <<>> THEN b ELSE BagAddAll(BagAdd(b, Head(us)), Tail(us))

\* sessions obtained by getPage and not yet passed to releasePage
CheckedOut == Cardinality({i \in 1..Len(tasks) : tasks[i].page # 0})

\* ------------------------------------------------------------------------
\* crawlWebsite: entry
\* ------------------------------------------------------------------------
InvalidStartResult ==
    [products |-> <<>>, visitedUrls |-> {}, error |-> "Invalid start URL"]

\* crawlWebsite(s, m) up to its first await (initBrowser)
Call(s, m) ==
    /\ pc = "idle"
    /\ startUrl' = s
    /\ maxPages' = m
    /\ IF ~isValidUrl(s)
       THEN /\ pc' = "returned"
            /\ result' = InvalidStartResult
            /\ UNCHANGED <<runLocals, history>>
       ELSE IF ~Parses(s)
            THEN \* normalizeUrl throws outside the try block
                 /\ pc' = "thrown"
                 /\ UNCHANGED <<result, runLocals, history>>
            ELSE /\ pc' = "init"
                 /\ baseDomain' = getBaseDomain(s)
                 /\ visitedUrls' = {normalizeUrl(s)}
                 /\ pendingUrls' = <<[url |-> normalizeUrl(s), priority |-> 1]>>
                 /\ products' = <<>>
                 /\ seenProductUrls' = {}
                 /\ urlCache' = EmptyCache
                 /\ pushed' = BagAdd(pushed, normalizeUrl(s))
                 /\ UNCHANGED <<result, dispatched, popped, classified, failed>>
    /\ UNCHANGED <<normVars, otherVars, tasks, browser, pagePool, launches, initError>>

\* cleanup(): closes the pooled pages and the browser, clears the reference;
\* the pagePool array itself is left as it is
cleanup ==
    /\ browser' = 0
    /\ UNCHANGED pagePool

\* initBrowser() and what follows its failure (the finally block, no catch)
InitBrowser(outcome, made) ==
    /\ pc = "init"
    /\ IF browser # 0
       THEN /\ outcome = "ok" /\ made = 0
            /\ pc' = "loop"
            /\ UNCHANGED <<browser, pagePool, launches, initError>>
       ELSE /\ launches' = launches + 1
            /\ initError' = (outcome # "ok")
            /\ CASE outcome = "ok" ->
                      /\ made = 0
                      /\ browser' = launches + 1
                      /\ pagePool' = pagePool \o [i \in 1..MAX_CONCURRENT_PAGES |-> launches + 1]
                      /\ pc' = "loop"
                 [] outcome = "launchFails" ->
                      /\ made = 0
                      /\ pc' = "thrown"
                      /\ UNCHANGED <<browser, pagePool>>
                 [] outcome = "newPageFails" ->
                      \* browser launched, `made` pages pooled, then newPage throws;
                      \* cleanup() closes them and the browser
                      /\ pagePool' = pagePool \o [i \in 1..made |-> launches + 1]
                      /\ browser' = 0
                      /\ pc' = "thrown"
    /\ UNCHANGED <<normVars, otherVars, startUrl, maxPages, runLocals, tasks, result, history>>

\* ------------------------------------------------------------------------
\* crawlWebsite: the main loop
\* ------------------------------------------------------------------------
NoTask(u) == [url |-> u, st |-> "done", page |-> 0, res |-> "", base |-> u]

\* callbacks that call fetchPage for every URL, resource or not
RECURSIVE StartTasks_NoSkip(_, _)
StartTasks_NoSkip(urls, pool) ==
    IF urls = <<>> THEN [tasks |-> <<>>, pool |-> pool]
    ELSE LET u == Head(urls).url
         IN  IF Len(pool) > 0
             THEN LET r == StartTasks_NoSkip(Tail(urls), SubSeq(pool, 1, Len(pool) - 1))
                  IN  [r EXCEPT !.tasks =
                         <<[NoTask(u) EXCEPT !.st = "goto", !.page = pool[Len(pool)]]>> \o @]
             ELSE LET r == StartTasks_NoSkip(Tail(urls), pool)
                  IN  [r EXCEPT !.tasks = <<[NoTask(u) EXCEPT !.st = "newPage"]>> \o @]

\* The synchronous part of each per-URL callback, run in order by the two
\* nested map calls: a resource URL returns null at once; any other URL
\* calls fetchPage, whose getPage pops a pooled page when there is one and
\* otherwise starts browser.newPage().
RECURSIVE StartTasks(_, _)
StartTasks(urls, pool) ==
    IF urls = <<>> THEN [tasks |-> <<>>, pool |-> pool]
    ELSE LET u == Head(urls).url
         IN  IF isResourceUrl(u)
             THEN LET r == StartTasks(Tail(urls), pool)
                  IN  [r EXCEPT !.tasks = <<NoTask(u)>> \o @]
             ELSE IF Len(pool) > 0
                  THEN LET r == StartTasks(Tail(urls), SubSeq(pool, 1, Len(pool) - 1))
                       IN  [r EXCEPT !.tasks =
                              <<[NoTask(u) EXCEPT !.st = "goto", !.page = pool[Len(pool)]]>> \o @]
                  ELSE LET r == StartTasks(Tail(urls), pool)
                       IN  [r EXCEPT !.tasks = <<[NoTask(u) EXCEPT !.st = "newPage"]>> \o @]

\* a while condition that stops one page short of the budget
LoopCondition_OneShort == Len(pendingUrls) > 0 /\ Cardinality(visitedUrls) + 1 < maxPages

\* the while condition
LoopCondition == Len(pendingUrls) > 0 /\ Cardinality(visitedUrls) < maxPages

\* a loop that takes a batch whenever the frontier is not empty
Select_NoBudget ==
    /\ pc = "loop"
    /\ Len(pendingUrls) > 0
    /\ LET sorted == SortByPriority(pendingUrls)
           currentBatch == SubSeq(sorted, 1, Min(BATCH_SIZE, Len(sorted)))
           started == StartTasks(Flatten(chunk(currentBatch, CONCURRENT_CRAWLS)), pagePool)
           fetched == SelectSeq(currentBatch, LAMBDA e : ~isResourceUrl(e.url))
       IN  /\ pendingUrls' = SubSeq(sorted, Len(currentBatch) + 1, Len(sorted))
           /\ tasks' = started.tasks
           /\ pagePool' = started.pool
           /\ popped' = BagAddAll(popped, [i \in 1..Len(currentBatch) |-> currentBatch[i].url])
           /\ dispatched' = BagAddAll(dispatched, [i \in 1..Len(fetched) |-> fetched[i].url])
    /\ pc' = "batch"
    /\ UNCHANGED <<normVars, otherVars, startUrl, maxPages, baseDomain, visitedUrls, products, seenProductUrls,
                   urlCache, result, browser, launches, initError, pushed, classified, failed>>

\* sort, splice a batch, chunk it and start every callback of every chunk
Select ==
    /\ pc = "loop"
    /\ LoopCondition
    /\ LET sorted == SortByPriority(pendingUrls)
           currentBatch == SubSeq(sorted, 1, Min(BATCH_SIZE, Len(sorted)))
           started == StartTasks(Flatten(chunk(currentBatch, CONCURRENT_CRAWLS)), pagePool)
           fetched == SelectSeq(currentBatch, LAMBDA e : ~isResourceUrl(e.url))
       IN  /\ pendingUrls' = SubSeq(sorted, Len(currentBatch) + 1, Len(sorted))
           /\ tasks' = started.tasks
           /\ pagePool' = started.pool
           /\ popped' = BagAddAll(popped, [i \in 1..Len(currentBatch) |-> currentBatch[i].url])
           /\ dispatched' = BagAddAll(dispatched, [i \in 1..Len(fetched) |-> fetched[i].url])
    /\ pc' = "batch"
    /\ UNCHANGED <<normVars, otherVars, startUrl, maxPages, baseDomain, visitedUrls, products, seenProductUrls,
                   urlCache, result, browser, launches, initError, pushed, classified, failed>>

\* the loop condition fails: build the result, run cleanup(), resolve
Return ==
    /\ pc = "loop"
    /\ ~LoopCondition
    /\ result' = [products |-> deduplicateProducts(products),
                  visitedUrls |-> visitedUrls,
                  error |-> NoError]
    /\ cleanup
    /\ pc' = "returned"
    /\ UNCHANGED <<normVars, otherVars, startUrl, maxPages, runLocals, tasks, launches, initError, history>>

\* the outer Promise.all resolves once every callback has returned
BatchDone ==
    /\ pc = "batch"
    /\ \A i \in 1..Len(tasks) : tasks[i].st = "done"
    /\ tasks' = <<>>
    /\ pc' = "loop"
    /\ UNCHANGED <<normVars, otherVars, startUrl, maxPages, runLocals, result, browser, pagePool, launches, initError, history>>

\* ------------------------------------------------------------------------
\* The per-URL callback (lines 117-181) and fetchPage
\* ------------------------------------------------------------------------
Finished(t) == [t EXCEPT !.st = "done", !.page = 0, !.res = ""]

\* a catch block that rethrows: Promise.all rejects, the finally block runs
Caught_Rethrow(i) ==
    /\ tasks' = [tasks EXCEPT ![i] = Finished(@)]
    /\ failed' = failed \cup {tasks[i].url}
    /\ pc' = "thrown"
    /\ browser' = 0
    /\ UNCHANGED <<result, runLocals, pushed, classified>>

\* a catch block that puts the URL back into pendingUrls for a retry
Caught_Retry(i) ==
    /\ tasks' = [tasks EXCEPT ![i] = Finished(@)]
    /\ failed' = failed \cup {tasks[i].url}
    /\ pendingUrls' = Append(pendingUrls, [url |-> tasks[i].url, priority |-> 1])
    /\ pushed' = BagAdd(pushed, tasks[i].url)
    /\ UNCHANGED <<pc, result, browser, baseDomain, visitedUrls, products,
                   seenProductUrls, urlCache, classified>>

\* catch (error) { console.error(...); return null; }
Caught(i) ==
    /\ tasks' = [tasks EXCEPT ![i] = Finished(@)]
    /\ failed' = failed \cup {tasks[i].url}
    /\ UNCHANGED <<pc, result, browser, runLocals, pushed, classified>>

\* a 404 that takes the URL out of the visited set again
ReturnNull_Unvisit(i) ==
    /\ tasks' = [tasks EXCEPT ![i] = Finished(@)]
    /\ visitedUrls' = visitedUrls \ {tasks[i].url}
    /\ UNCHANGED <<pc, result, browser, baseDomain, pendingUrls, products, seenProductUrls,
                   urlCache, pushed, classified, failed>>

\* if (!pageResult) return null;
ReturnNull(i) ==
    /\ tasks' = [tasks EXCEPT ![i] = Finished(@)]
    /\ UNCHANGED <<pc, result, browser, runLocals, pushed, classified, failed>>

\* accumulation without the seenProductUrls test
AccumulateProduct_NoSeenCheck(url, pageAnalysis, prods, seen) ==
    IF pageAnalysis.pageType = "product" /\ pageAnalysis.product # NoProduct
    THEN [products |-> Append(prods, [rec |-> pageAnalysis.product, url |-> normalizeUrl(url)]),
          seen |-> seen \cup {normalizeUrl(url)}]
    ELSE [products |-> prods, seen |-> seen]

\* the product record kept for a page, if any (lines 138-150)
AccumulateProduct(url, pageAnalysis, prods, seen) ==
    IF pageAnalysis.pageType = "product" /\ pageAnalysis.product # NoProduct
    THEN LET normalizedProductUrl == normalizeUrl(url)
         IN  IF normalizedProductUrl \notin seen
             THEN [products |-> Append(prods, [rec |-> pageAnalysis.product,
                                               url |-> normalizedProductUrl]),
                   seen |-> seen \cup {normalizedProductUrl}]
             ELSE [products |-> prods, seen |-> seen]
    ELSE [products |-> prods, seen |-> seen]

\* pushing every entry of newUrls without the visitedUrls.has test
NewEntries_NoRecheck(baseUrl, domain, visited, pageAnalysis) ==
    processNewUrls(baseUrl, domain, visited, pageAnalysis)

\* the entries the callback adds to pendingUrls (lines 153-167)
NewEntries(baseUrl, domain, visited, pageAnalysis) ==
    PushedOf(processNewUrls(baseUrl, domain, visited, pageAnalysis), visited)

\* an integration that enqueues the new links without marking them visited
Integrate_NoVisitedAdd(i, baseUrl, pageAnalysis) ==
    LET url == tasks[i].url
        acc == AccumulateProduct(url, pageAnalysis, products, seenProductUrls)
        add == NewEntries(baseUrl, baseDomain, visitedUrls, pageAnalysis)
    IN  /\ products' = acc.products
        /\ seenProductUrls' = acc.seen
        /\ visitedUrls' = visitedUrls
        /\ pendingUrls' = pendingUrls \o add
        /\ pushed' = BagAddAll(pushed, [k \in 1..Len(add) |-> add[k].url])
        /\ tasks' = [tasks EXCEPT ![i] = Finished(@)]
        /\ UNCHANGED <<pc, result, browser, baseDomain>>

\* lines 137-176: everything after the analysis is known, run without an await
Integrate(i, baseUrl, pageAnalysis) ==
    LET url == tasks[i].url
        acc == AccumulateProduct(url, pageAnalysis, products, seenProductUrls)
        add == NewEntries(baseUrl, baseDomain, visitedUrls, pageAnalysis)
    IN  /\ products' = acc.products
        /\ seenProductUrls' = acc.seen
        /\ visitedUrls' = visitedUrls \cup UrlsOf(add)
        /\ pendingUrls' = pendingUrls \o add
        /\ pushed' = BagAddAll(pushed, [k \in 1..Len(add) |-> add[k].url])
        /\ tasks' = [tasks EXCEPT ![i] = Finished(@)]
        /\ UNCHANGED <<pc, result, browser, baseDomain>>

\* a callback that reserves its cache entry before it calls the classifier
AfterFetch_EarlyCache(i, kind, finalUrl) ==
    CASE kind = "throw" -> Caught(i)
      [] kind = "404" -> ReturnNull(i)
      [] kind = "ok" ->
            IF tasks[i].url \in DOMAIN urlCache
            THEN /\ Integrate(i, finalUrl, urlCache[tasks[i].url])
                 /\ UNCHANGED <<urlCache, classified, failed>>
            ELSE /\ tasks' = [tasks EXCEPT ![i] = [@ EXCEPT !.st = "classify", !.page = 0,
                                                           !.res = "", !.base = finalUrl]]
                 /\ classified' = BagAdd(classified, tasks[i].url)
                 /\ urlCache' = [u \in DOMAIN urlCache \cup {tasks[i].url} |->
                                   IF u = tasks[i].url THEN FailedAnalysis ELSE urlCache[u]]
                 /\ UNCHANGED <<pc, result, browser, baseDomain, visitedUrls, pendingUrls,
                                products, seenProductUrls, pushed, failed>>

\* the callback after fetchPage has settled
AfterFetch(i, kind, finalUrl) ==
    CASE kind = "throw" -> Caught(i)
      [] kind = "404" -> ReturnNull(i)
      [] kind = "ok" ->
            IF tasks[i].url \in DOMAIN urlCache
            THEN /\ Integrate(i, finalUrl, urlCache[tasks[i].url])
                 /\ UNCHANGED <<urlCache, classified, failed>>
            ELSE /\ tasks' = [tasks EXCEPT ![i] = [@ EXCEPT !.st = "classify", !.page = 0,
                                                           !.res = "", !.base = finalUrl]]
                 /\ classified' = BagAdd(classified, tasks[i].url)
                 /\ UNCHANGED <<pc, result, browser, runLocals, pushed, failed>>

\* getPage with an empty pool: browser.newPage() settles
NewPageReturn(i, ok) ==
    /\ pc = "batch"
    /\ i \in 1..Len(tasks)
    /\ tasks[i].st = "newPage"
    /\ IF ok
       THEN /\ browser # 0
            /\ tasks' = [tasks EXCEPT ![i] = [@ EXCEPT !.st = "goto", !.page = browser]]
            /\ UNCHANGED <<pc, result, browser, runLocals, pushed, classified, failed>>
       ELSE Caught(i)
    /\ UNCHANGED <<normVars, otherVars, startUrl, maxPages, pagePool, launches, initError, dispatched, popped>>

\* a fetchPage that releases its session after the try block, not in a
\* finally block: an exception during navigation leaves the session with
\* the callback
GotoReturn_NoFinally(i, kind, final) ==
    /\ pc = "batch"
    /\ i \in 1..Len(tasks)
    /\ tasks[i].st = "goto"
    /\ kind # "ok" => final = tasks[i].url
    /\ tasks[i].page # browser => kind = "throw"
    /\ IF kind = "throw"
       THEN /\ tasks' = [tasks EXCEPT ![i] = [@ EXCEPT !.st = "done", !.res = ""]]
            /\ failed' = failed \cup {tasks[i].url}
            /\ UNCHANGED <<pagePool, pc, result, browser, runLocals, pushed, classified>>
       ELSE IF Len(pagePool) < MAX_CONCURRENT_PAGES
            THEN /\ pagePool' = Append(pagePool, tasks[i].page)
                 /\ AfterFetch(i, kind, normalizeUrl(final))
            ELSE /\ tasks' = [tasks EXCEPT ![i] = [@ EXCEPT !.st = "close", !.page = 0,
                                                           !.res = kind,
                                                           !.base = normalizeUrl(final)]]
                 /\ UNCHANGED <<pagePool, pc, result, browser, runLocals, pushed, classified, failed>>
    /\ UNCHANGED <<normVars, otherVars, startUrl, maxPages, launches, initError, dispatched, popped>>

\* the navigation of fetchPage settles (kind: page data, 404, or an exception
\* or timeout); its finally block runs releasePage
GotoReturn(i, kind, final) ==
    /\ pc = "batch"
    /\ i \in 1..Len(tasks)
    /\ tasks[i].st = "goto"
    /\ kind # "ok" => final = tasks[i].url
    /\ tasks[i].page # browser => kind = "throw"   \* a closed session cannot navigate
    /\ IF Len(pagePool) < MAX_CONCURRENT_PAGES
       THEN /\ pagePool' = Append(pagePool, tasks[i].page)
            /\ AfterFetch(i, kind, normalizeUrl(final))
       ELSE \* await page.close()
            /\ tasks' = [tasks EXCEPT ![i] = [@ EXCEPT !.st = "close", !.page = 0,
                                                      !.res = kind,
                                                      !.base = normalizeUrl(final)]]
            /\ UNCHANGED <<pagePool, pc, result, browser, runLocals, pushed, classified, failed>>
    /\ UNCHANGED <<normVars, otherVars, startUrl, maxPages, launches, initError, dispatched, popped>>

\* page.close() in releasePage settles
CloseReturn(i, ok) ==
    /\ pc = "batch"
    /\ i \in 1..Len(tasks)
    /\ tasks[i].st = "close"
    /\ IF ok
       THEN AfterFetch(i, tasks[i].res, tasks[i].base)
       ELSE Caught(i)
    /\ UNCHANGED <<normVars, otherVars, startUrl, maxPages, pagePool, launches, initError, dispatched, popped>>

\* a classifier whose failure hands on whatever analysis was under way
ClassifyReturn_NoDegrade(i, ok, pageAnalysis) ==
    /\ pc = "batch"
    /\ i \in 1..Len(tasks)
    /\ tasks[i].st = "classify"
    /\ urlCache' = [u \in DOMAIN urlCache \cup {tasks[i].url} |->
                      IF u = tasks[i].url THEN pageAnalysis ELSE urlCache[u]]
    /\ failed' = IF ok THEN failed ELSE failed \cup {tasks[i].url}
    /\ Integrate(i, tasks[i].base, pageAnalysis)
    /\ UNCHANGED <<normVars, otherVars, startUrl, maxPages, pagePool, launches, initError, dispatched, popped, classified>>

\* analyzePageWithGemini settles: a parsed analysis, or { pageType: "other" }
\* after a failed call or an unparsable answer
ClassifyReturn(i, ok, pageAnalysis) ==
    /\ pc = "batch"
    /\ i \in 1..Len(tasks)
    /\ tasks[i].st = "classify"
    /\ ~ok => pageAnalysis = FailedAnalysis
    /\ urlCache' = [u \in DOMAIN urlCache \cup {tasks[i].url} |->
                      IF u = tasks[i].url THEN pageAnalysis ELSE urlCache[u]]
    /\ failed' = IF ok THEN failed ELSE failed \cup {tasks[i].url}
    /\ Integrate(i, tasks[i].base, pageAnalysis)
    /\ UNCHANGED <<normVars, otherVars, startUrl, maxPages, pagePool, launches, initError, dispatched, popped, classified>>

\* ------------------------------------------------------------------------
\* Specification
\* ------------------------------------------------------------------------
Next ==
    \/ \E s \in StartUrls, m \in MaxPagesChoices : Call(s, m)
    \/ \E o \in {"ok", "launchFails", "newPageFails"}, k \in 0..(MAX_CONCURRENT_PAGES - 1) :
          InitBrowser(o, k)
    \/ Select
    \/ Return
    \/ BatchDone
    \/ \E i \in DOMAIN tasks, ok \in BOOLEAN : NewPageReturn(i, ok)
    \/ \E i \in DOMAIN tasks, kind \in {"ok", "404", "throw"} :
          \E final \in FinalUrls(tasks[i].url) : GotoReturn(i, kind, final)
    \/ \E i \in DOMAIN tasks, ok \in BOOLEAN : CloseReturn(i, ok)
    \/ \E i \in DOMAIN tasks, ok \in BOOLEAN :
          \E a \in PageAnalyses(tasks[i].base) \cup {FailedAnalysis} :
             ClassifyReturn(i, ok, a)

Spec == Init /\ [][Next]_vars

\* every started call settles: the event loop runs each ready continuation
FairSpec == Spec /\ WF_vars(Next)

\* ------------------------------------------------------------------------
\* The URL normalizer on its own: a URL is drawn, a second URL is derived
\* from it by one superficial change, both are normalized, and the key of
\* the first is normalized again.
\* ------------------------------------------------------------------------
NormSegs == {"en", "fr", "x", "P"}

RECURSIVE PathsUpTo(_)
PathsUpTo(n) ==
    IF n = 0 THEN {<<>>}
    ELSE LET shorter == PathsUpTo(n - 1)
         IN  shorter \cup {Append(p, sg) : p \in {q \in shorter : Len(q) = n - 1}, sg \in NormSegs}

Param(key, val) == [k |-> key, v |-> val]

NormQueries ==
    { <<>>,
      <<Param("b", "2"), Param("a", "1")>>,
      <<Param("a", "1"), Param("a", "2")>>,
      <<Param("B", "1"), Param("b", "2")>> }

NormInputs ==
    { [Url("shop", p) EXCEPT !.trail = t, !.frag = f, !.query = q] :
        p \in PathsUpTo(MaxSegs), t \in BOOLEAN, f \in BOOLEAN, q \in NormQueries }

\* the other spellings of a segment or key that differ in letter case only
CaseForms(sg) ==
    {c \in {"en", "EN", "p", "P", "b", "B"} : c # sg /\ toLowerCase(c) = toLowerCase(sg)}

Reverse(q) == [i \in 1..Len(q) |-> q[Len(q) + 1 - i]]

\* the URLs that differ from u only in fragment, only in a leading locale
\* segment, only in trailing slashes, only in query parameter order, or
\* only in the letter case of one path segment or one parameter name
Variants(u) ==
    {[u EXCEPT !.frag = ~@]}
    \cup {[u EXCEPT !.path = <<l>> \o @] : l \in {"en", "EN", "fr"}}
    \cup {[u EXCEPT !.trail = ~@]}
    \cup {[u EXCEPT !.query = Reverse(@)]}
    \cup UNION {{[u EXCEPT !.path[i] = c] : c \in CaseForms(u.path[i])} : i \in 1..Len(u.path)}
    \cup UNION {{[u EXCEPT !.query[i].k = c] : c \in CaseForms(u.query[i].k)} : i \in 1..Len(u.query)}

NormInit ==
    /\ IdleCrawler
    /\ nPc = "input"
    /\ nA \in NormInputs
    /\ nB = nA
    /\ nKeyA = NotAUrl /\ nKeyB = NotAUrl /\ nKeyAA = NotAUrl

crawlVars == <<pc, startUrl, maxPages, baseDomain, visitedUrls, pendingUrls, products,
               seenProductUrls, urlCache, tasks, result, browser, pagePool, launches,
               initError, dispatched, popped, pushed, classified, failed,
               rPc, rPage, rFetched>>

\* pick the second URL
NormVary(v) ==
    /\ nPc = "input"
    /\ v \in Variants(nA)
    /\ v # nA
    /\ nB' = v
    /\ nPc' = "varied"
    /\ UNCHANGED <<crawlVars, nA, nKeyA, nKeyB, nKeyAA>>

\* normalizeUrl(nA), normalizeUrl(nB)
NormApply ==
    /\ nPc \in {"input", "varied"}
    /\ nKeyA' = normalizeUrl(nA)
    /\ nKeyB' = normalizeUrl(nB)
    /\ nPc' = "normalized"
    /\ UNCHANGED <<crawlVars, nA, nB, nKeyAA>>

\* normalizeUrl(normalizeUrl(nA))
NormAgain ==
    /\ nPc = "normalized"
    /\ nKeyAA' = normalizeUrl(nKeyA)
    /\ nPc' = "renormalized"
    /\ UNCHANGED <<crawlVars, nA, nB, nKeyA, nKeyB>>

NormNext ==
    \/ \E v \in Variants(nA) : NormVary(v)
    \/ NormApply
    \/ NormAgain

NormSpec == NormInit /\ [][NormNext]_vars

\* ------------------------------------------------------------------------
\* Successive runs in one process: the server calls crawlWebsite again after
\* a run has ended; browser and pagePool are module state and carry over.
\* ------------------------------------------------------------------------
Again ==
    /\ pc \in {"returned", "thrown"}
    /\ launches < MaxLaunches
    /\ pc' = "idle"
    /\ startUrl' = NotAUrl
    /\ maxPages' = 0
    /\ baseDomain' = ""
    /\ visitedUrls' = {}
    /\ pendingUrls' = <<>>
    /\ products' = <<>>
    /\ seenProductUrls' = {}
    /\ urlCache' = EmptyCache
    /\ tasks' = <<>>
    /\ result' = NoResult
    /\ initError' = FALSE
    /\ dispatched' = EmptyBag
    /\ popped' = EmptyBag
    /\ pushed' = EmptyBag
    /\ classified' = EmptyBag
    /\ failed' = {}
    /\ UNCHANGED <<normVars, otherVars, browser, pagePool, launches>>

RerunNext ==
    \/ Next
    \/ Again

RerunSpec == Init /\ [][RerunNext]_vars

\* ------------------------------------------------------------------------
\* Overlapping runs: the server accepts a request while another is being
\* served, so several crawlWebsite invocations are under way at once.  Each
\* invocation here crawls a start page without links: one fetch, one
\* classification, then its loop ends.  Frontier, visited set and products
\* are local to an invocation; browser and pagePool are the module's.
\* ------------------------------------------------------------------------
runVars == <<pc, startUrl, maxPages, runLocals, tasks, result, initError, history>>

\* the route handler calls crawlWebsite
RunCall(r) ==
    /\ rPc[r] = "idle"
    /\ rPc' = [rPc EXCEPT ![r] = "init"]
    /\ UNCHANGED <<normVars, runVars, browser, pagePool, launches, rPage, rFetched>>

\* initBrowser(): reuses the browser that is there, or launches one
RunInitBrowser(r, outcome) ==
    /\ rPc[r] = "init"
    /\ IF browser # 0
       THEN /\ outcome = "ok"
            /\ rPc' = [rPc EXCEPT ![r] = "loop"]
            /\ UNCHANGED <<browser, pagePool, launches>>
       ELSE /\ launches' = launches + 1
            /\ IF outcome = "ok"
               THEN /\ browser' = launches + 1
                    /\ pagePool' = pagePool \o [i \in 1..MAX_CONCURRENT_PAGES |-> launches + 1]
                    /\ rPc' = [rPc EXCEPT ![r] = "loop"]
               ELSE /\ rPc' = [rPc EXCEPT ![r] = "ended"]
                    /\ UNCHANGED <<browser, pagePool>>
    /\ UNCHANGED <<normVars, runVars, rPage, rFetched>>

\* the first iteration: the start URL is popped and fetchPage calls getPage
RunSelect(r) ==
    /\ rPc[r] = "loop"
    /\ IF Len(pagePool) > 0
       THEN /\ rPage' = [rPage EXCEPT ![r] = pagePool[Len(pagePool)]]
            /\ pagePool' = SubSeq(pagePool, 1, Len(pagePool) - 1)
            /\ rPc' = [rPc EXCEPT ![r] = "goto"]
       ELSE /\ rPc' = [rPc EXCEPT ![r] = "newPage"]
            /\ UNCHANGED <<rPage, pagePool>>
    /\ UNCHANGED <<normVars, runVars, browser, launches, rFetched>>

\* browser!.newPage() settles; with browser null it throws
RunNewPageReturn(r, ok) ==
    /\ rPc[r] = "newPage"
    /\ IF ok
       THEN /\ browser # 0
            /\ rPage' = [rPage EXCEPT ![r] = browser]
            /\ rPc' = [rPc EXCEPT ![r] = "goto"]
       ELSE /\ rPc' = [rPc EXCEPT ![r] = "settled"]
            /\ UNCHANGED rPage
    /\ UNCHANGED <<normVars, runVars, browser, pagePool, launches, rFetched>>

\* the navigation settles and the finally block releases the session
RunGotoReturn(r, kind) ==
    /\ rPc[r] = "goto"
    /\ rPage[r] # browser => kind = "throw"
    /\ pagePool' = IF Len(pagePool) < MAX_CONCURRENT_PAGES
                   THEN Append(pagePool, rPage[r])
                   ELSE pagePool
    /\ rPage' = [rPage EXCEPT ![r] = 0]
    /\ rPc' = [rPc EXCEPT ![r] = IF kind = "ok" THEN "classify" ELSE "settled"]
    /\ UNCHANGED <<normVars, runVars, browser, launches, rFetched>>

\* the classifier settles; the page has no links
RunClassifyReturn(r) ==
    /\ rPc[r] = "classify"
    /\ rFetched' = [rFetched EXCEPT ![r] = TRUE]
    /\ rPc' = [rPc EXCEPT ![r] = "settled"]
    /\ UNCHANGED <<normVars, runVars, browser, pagePool, launches, rPage>>

\* the frontier is empty: the loop ends and the finally block runs cleanup()
RunReturn(r) ==
    /\ rPc[r] = "settled"
    /\ cleanup
    /\ rPc' = [rPc EXCEPT ![r] = "ended"]
    /\ UNCHANGED <<normVars, runVars, launches, rPage, rFetched>>

OverlapNext ==
    \/ \E r \in Runs : RunCall(r)
    \/ \E r \in Runs, o \in {"ok", "launchFails"} : RunInitBrowser(r, o)
    \/ \E r \in Runs : RunSelect(r)
    \/ \E r \in Runs, ok \in BOOLEAN : RunNewPageReturn(r, ok)
    \/ \E r \in Runs, kind \in {"ok", "404", "throw"} : RunGotoReturn(r, kind)
    \/ \E r \in Runs : RunClassifyReturn(r)
    \/ \E r \in Runs : RunReturn(r)

OverlapSpec == Init /\ [][OverlapNext]_vars

\* ------------------------------------------------------------------------
\* Properties
\* ------------------------------------------------------------------------
PendingUrlSet == UrlsOf(pendingUrls)

\* C1: page budget -- the visited set, and with it CrawlResult.visitedUrls,
\* never holds more than maxPages URLs.
C1_PageBudget ==
    /\ Cardinality(visitedUrls) <= maxPages
    /\ Cardinality(result.visitedUrls) <= maxPages

\* C2: pool cap -- at every moment at most MAX_CONCURRENT_PAGES sessions are
\* checked out (obtained by getPage and not yet passed to releasePage).
C2_PoolCap == CheckedOut <= MAX_CONCURRENT_PAGES

\* C3: a start URL that does not parse makes crawlWebsite return at once with
\* products = [], visitedUrls = [] and error = "Invalid start URL"; the
\* browser is never initialised, nothing is fetched and nothing classified.
C3_InvalidStartUrl ==
    (pc # "idle" /\ ~Parses(startUrl)) =>
        /\ pc = "returned"
        /\ result = [products |-> <<>>, visitedUrls |-> {}, error |-> "Invalid start URL"]
        /\ launches = 0
        /\ browser = 0
        /\ dispatched = EmptyBag
        /\ classified = EmptyBag
        /\ tasks = <<>>

C3_Witness ==
    /\ pc = "returned"
    /\ ~Parses(startUrl)
    /\ result.error = "Invalid start URL"

\* C4: when initBrowser fails, crawlWebsite still returns a CrawlResult, with
\* error set and products and visitedUrls empty, and does not throw.
C4_GlobalFailure ==
    initError =>
        /\ pc = "returned"
        /\ result.error \notin {NoError, "pending"}
        /\ result.products = <<>>
        /\ result.visitedUrls = {}

LinksOf(a) ==
    LET all == a.productLinks \o a.paginationLinks \o a.categoryLinks \o a.otherRelevantLinks
    IN  {all[k] : k \in 1..Len(all)}

\* C5: a failed fetch or classification of one URL leaves its siblings
\* running, never makes the run throw, and the run goes on to return a
\* CrawlResult without error once every callback of the batch has returned.
C5_FailureContainment ==
    /\ [](failed # {} => pc # "thrown")
    /\ []((failed # {} /\ pc = "returned") => (result.error = NoError /\ tasks = <<>>))
    /\ [][failed' # failed =>
            /\ pc' = "batch"
            /\ \A j \in DOMAIN tasks :
                  tasks[j].url \notin failed' \ failed => tasks'[j] = tasks[j]]_vars
    /\ ((failed # {} /\ pc = "batch") ~> (pc = "returned"))

C5_Witness ==
    \E i, j \in DOMAIN tasks :
        /\ i # j
        /\ tasks[i].url \in failed
        /\ tasks[j].url \notin failed
        /\ tasks[j].st = "done"
        /\ tasks[j].url \in DOMAIN urlCache

\* C6: the frontier never holds a URL twice, no URL is pushed twice during a
\* run (also when two callbacks of one batch discover the same link), and
\* the visited set only grows.
C6_NoDuplicateEnqueue ==
    /\ [](\A i, j \in DOMAIN pendingUrls : i # j => pendingUrls[i].url # pendingUrls[j].url)
    /\ [](\A u \in BagToSet(pushed) : CopiesIn(u, pushed) = 1)
    /\ [][visitedUrls \subseteq visitedUrls']_vars

C6_Witness ==
    \E i, j \in DOMAIN tasks :
        /\ i # j
        /\ tasks[i].st = "done" /\ tasks[j].st = "done"
        /\ tasks[i].url \in DOMAIN urlCache /\ tasks[j].url \in DOMAIN urlCache
        /\ Ln \in LinksOf(urlCache[tasks[i].url])
        /\ Ln \in LinksOf(urlCache[tasks[j].url])
        /\ CopiesIn(normalizeUrl(Ln), pushed) = 1

\* C7: the accumulated products, and CrawlResult.products, hold at most one
\* record per product URL; a record once accumulated stays where it is (the
\* first one wins); every record comes from a page analysed as pageType
\* product with a product.
C7_ProductUniqueness ==
    /\ [](\A i, j \in DOMAIN products : i # j => products[i].url # products[j].url)
    /\ [](\A k \in DOMAIN products :
            \E u \in DOMAIN urlCache :
                /\ normalizeUrl(u) = products[k].url
                /\ urlCache[u].pageType = "product"
                /\ urlCache[u].product = products[k].rec)
    /\ []((pc = "returned" /\ Parses(startUrl)) => result.products = products)
    /\ [][/\ Len(products') >= Len(products)
          /\ \A k \in DOMAIN products : products'[k] = products[k]]_vars

C7_Witness ==
    \E u, v \in DOMAIN urlCache :
        /\ u # v
        /\ normalizeUrl(u) = normalizeUrl(v)
        /\ urlCache[u].pageType = "product" /\ urlCache[u].product # NoProduct
        /\ urlCache[v].pageType = "product" /\ urlCache[v].product # NoProduct
        /\ Cardinality({k \in DOMAIN products : products[k].url = normalizeUrl(u)}) = 1

\* C8: every URL pushed to the frontier, added to the visited set or
\* dispatched to the renderer has the hostname of the start URL.
C8_DomainScoping ==
    \A u \in visitedUrls \cup PendingUrlSet \cup BagToSet(pushed)
             \cup BagToSet(popped) \cup BagToSet(dispatched) :
        getBaseDomain(u) = getBaseDomain(startUrl)

C8_Witness ==
    /\ pc = "returned"
    /\ \E u \in DOMAIN urlCache : Loff \in LinksOf(urlCache[u])
    /\ \E v \in DOMAIN urlCache :
          /\ urlCache[v] \in PageAnalyses(Redirected)
          /\ Lrel \in LinksOf(urlCache[v])

\* C9: every run eventually leaves its main loop and returns a CrawlResult,
\* and the loop is left exactly when the frontier is empty or the visited
\* set has reached maxPages entries.
C9_Termination ==
    /\ (pc = "init") ~> (pc = "returned")
    /\ [][(pc = "loop" /\ pc' = "returned") <=> (pc = "loop" /\ pc' # "loop" /\ ~LoopCondition)]_vars
    /\ [][(pc = "loop" /\ LoopCondition) => pc' \in {"loop", "batch"}]_vars

\* C10: every URL is dispatched to the renderer at most once and spliced out
\* of the frontier at most once; a URL spliced out is never in it again.
C10_AtMostOnce ==
    /\ \A u \in BagToSet(dispatched) : CopiesIn(u, dispatched) = 1
    /\ \A u \in BagToSet(popped) : CopiesIn(u, popped) = 1 /\ u \notin PendingUrlSet

C10_Witness ==
    /\ pc = "returned"
    /\ \E u \in failed, v \in BagToSet(dispatched) :
          /\ v \notin failed
          /\ CopiesIn(u, dispatched) = 1
          /\ v \in DOMAIN urlCache

\* The end-to-end scenario: the start page is analysed as a listing whose
\* only link is the product link Lw, and the page at Lw, whenever it is
\* fetched, is analysed as a product page carrying product record 2.
ScenarioListing == Analysis("listing", NoProduct, <<Lw>>, <<>>, <<>>, <<>>)

ScenarioProduct == Analysis("product", 2, <<>>, <<>>, <<>>, <<>>)

ScenarioHolds ==
    /\ Parses(startUrl)
    /\ normalizeUrl(startUrl) \in DOMAIN urlCache
    /\ urlCache[normalizeUrl(startUrl)] = ScenarioListing
    /\ normalizeUrl(Lw) \in BagToSet(dispatched) =>
          /\ normalizeUrl(Lw) \in DOMAIN urlCache
          /\ urlCache[normalizeUrl(Lw)] = ScenarioProduct

ScenarioResult ==
    /\ result.products = <<[rec |-> 2, url |-> normalizeUrl(Lw)]>>
    /\ {normalizeUrl(startUrl), normalizeUrl(Lw)} \subseteq result.visitedUrls
    /\ result.error = NoError

C12_Idempotent == nPc = "renormalized" => nKeyAA = nKeyA

\* C13: two URLs that differ only in fragment, leading locale segment,
\* trailing slashes, query parameter order or letter case get the same key.
C13_Equivalence == nPc \in {"normalized", "renormalized"} => nKeyB = nKeyA

\* the chunk (a group of at most CONCURRENT_CRAWLS URLs) a callback belongs to
ChunkOf(i) == (i - 1) \div CONCURRENT_CRAWLS + 1

InFlight(i) == tasks[i].st \in {"newPage", "goto", "close", "classify"}

\* C14: chunk-synchronous dispatch -- a URL of a later chunk is in flight
\* only when every URL of the earlier chunks has completed.
C14_ChunkSynchronous ==
    \A i, j \in DOMAIN tasks :
        (ChunkOf(i) < ChunkOf(j) /\ InFlight(j)) => tasks[i].st = "done"

\* C15: teardown leaves nothing behind -- after a run that initialised the
\* browser has ended, the browser is shut down and the pool is empty; in a
\* later run the pool holds at most MAX_CONCURRENT_PAGES sessions, all of
\* the current browser, and no callback is handed a session of an earlier
\* browser.
C15_Teardown ==
    /\ (pc \in {"returned", "thrown"} /\ launches > 0) => (browser = 0 /\ pagePool = <<>>)
    /\ pc \in {"loop", "batch"} =>
          /\ Len(pagePool) <= MAX_CONCURRENT_PAGES
          /\ \A k \in 1..Len(pagePool) : pagePool[k] = browser
          /\ \A i \in DOMAIN tasks : tasks[i].page # 0 => tasks[i].page = browser

\* the URLs popped from the frontier whose callback has not returned yet
InFlightUrls == {tasks[i].url : i \in {j \in DOMAIN tasks : InFlight(j)}}

\* the URLs whose processing has finished: the callbacks of the current
\* batch that have returned (skipped and failed ones included) and the URLs
\* of the earlier batches
FinishedUrls ==
    {tasks[i].url : i \in {j \in DOMAIN tasks : tasks[j].st = "done"}}
    \cup (BagToSet(popped) \ {tasks[i].url : i \in DOMAIN tasks})

\* C16: frontier partition -- the visited set is the disjoint union of the
\* URLs in the frontier, the URLs popped and in flight, and the URLs whose
\* processing has finished; no URL, the seed included, is counted twice.
C16_FrontierPartition ==
    /\ visitedUrls = PendingUrlSet \cup InFlightUrls \cup FinishedUrls
    /\ PendingUrlSet \cap InFlightUrls = {}
    /\ PendingUrlSet \cap FinishedUrls = {}
    /\ InFlightUrls \cap FinishedUrls = {}
    /\ Cardinality(visitedUrls) = Len(pendingUrls) + BagCardinality(popped)
    /\ Cardinality(InFlightUrls) + Cardinality(FinishedUrls) = BagCardinality(popped)
    /\ pc \in {"init", "loop", "batch"} =>
          /\ normalizeUrl(startUrl) \in visitedUrls
          /\ CopiesIn(normalizeUrl(startUrl), pushed) = 1

C16_Witness ==
    /\ pc = "batch"
    /\ PendingUrlSet # {}
    /\ InFlightUrls # {}
    /\ FinishedUrls \cap failed # {}
    /\ \E u \in FinishedUrls : isResourceUrl(u)
    /\ normalizeUrl(startUrl) \in FinishedUrls \ {tasks[i].url : i \in DOMAIN tasks}

\* the state shared by the callbacks of a run
shared == <<pendingUrls, visitedUrls, urlCache, products>>

\* C17 as claimed: the shared state is modified only when no callback is in
\* flight, or by a step after which every callback of the chunk of the
\* stepping callback has completed.
C17_IntegrationPhase_Claimed ==
    [][shared' # shared =>
          \/ \A j \in DOMAIN tasks : ~InFlight(j)
          \/ \A i, j \in DOMAIN tasks :
                (tasks'[i] # tasks[i] /\ ChunkOf(j) = ChunkOf(i)) => tasks'[j].st = "done"]_vars

\* C17: the shared state is modified only when no callback is in flight
\* (entry, selection of a batch), or by the one step in which a single
\* callback completes -- that callback is the only one that moves, and it
\* is done afterwards; its siblings may still be in flight.
C17_MutationOnCompletion ==
    [][shared' # shared =>
          \/ \A j \in DOMAIN tasks : ~InFlight(j)
          \/ /\ pc = "batch" /\ pc' = "batch"
             /\ \E i \in DOMAIN tasks :
                   /\ InFlight(i)
                   /\ tasks'[i].st = "done"
                   /\ \A j \in DOMAIN tasks \ {i} : tasks'[j] = tasks[j]]_vars

C17_Witness ==
    /\ pc = "batch"
    /\ \E i, j \in DOMAIN tasks :
          /\ ChunkOf(i) = ChunkOf(j)
          /\ tasks[i].st = "done"
          /\ tasks[i].url \in DOMAIN urlCache
          /\ LinksOf(urlCache[tasks[i].url]) # {}
          /\ \E e \in PendingUrlSet : e \notin {tasks[k].url : k \in DOMAIN tasks}
          /\ tasks[j].st \in {"goto", "classify"}

\* the callbacks of the current batch for which the classifier was called
ClassifierCalled(i) ==
    \/ tasks[i].st = "classify"
    \/ tasks[i].st = "done" /\ tasks[i].url \in DOMAIN urlCache

\* C18: analysis cache keyed by final URL -- an analysis is stored under the
\* normalized post-redirect URL of its page, and the classifier is called at
\* most once per normalized final URL.
C18_CacheByFinalUrl ==
    /\ \A i \in DOMAIN tasks :
          (tasks[i].st = "done" /\ ClassifierCalled(i)) => tasks[i].base \in DOMAIN urlCache
    /\ \A i, j \in DOMAIN tasks :
          (i # j /\ ClassifierCalled(i) /\ ClassifierCalled(j)) => tasks[i].base # tasks[j].base

\* the priority of the frontier entry for URL u
PriorityOf(q, u) == (CHOOSE e \in {q[k] : k \in 1..Len(q)} : e.url = u).priority

\* C19: highest priority first -- every Select step pops at most BATCH_SIZE
\* entries, the popped and the remaining entries together are the frontier
\* as it was, and every popped entry has a priority greater than or equal to
\* that of every entry left in the frontier.
C19_HighestPriorityFirst ==
    [][(pc = "loop" /\ pc' = "batch") =>
          LET batchUrls == {tasks'[i].url : i \in DOMAIN tasks'}
              remaining == UrlsOf(pendingUrls')
          IN  /\ Len(tasks') <= BATCH_SIZE
              /\ Len(tasks') + Len(pendingUrls') = Len(pendingUrls)
              /\ batchUrls \cup remaining = UrlsOf(pendingUrls)
              /\ batchUrls \cap remaining = {}
              /\ \A u \in batchUrls, v \in remaining :
                    PriorityOf(pendingUrls, u) >= PriorityOf(pendingUrls, v)
              /\ \A v \in remaining :
                    PriorityOf(pendingUrls', v) = PriorityOf(pendingUrls, v)]_vars

\* a full batch that holds n, reported as a product link by a page of the
\* batch before, while r4, enqueued earlier with priority 1, is left behind
C19_Witness ==
    /\ pc = "batch"
    /\ Len(tasks) = BATCH_SIZE
    /\ normalizeUrl(Ln) \in {tasks[i].url : i \in DOMAIN tasks}
    /\ normalizeUrl(Lr4) \in PendingUrlSet
    /\ PriorityOf(pendingUrls, normalizeUrl(Lr4)) = 1

\* the keys of the well-formed links of one category, resolved against base
KeysOf(links, base) ==
    {normalizeUrl(ResolveLink(links[k], base)) : k \in {n \in 1..Len(links) : Parses(links[n])}}

\* the priority of the highest category in which analysis a reports u
HighestReported(a, base, u) ==
    IF u \in KeysOf(a.productLinks, base) THEN 3
    ELSE IF u \in KeysOf(a.paginationLinks, base) \cup KeysOf(a.categoryLinks, base) THEN 2
    ELSE IF u \in KeysOf(a.otherRelevantLinks, base) THEN 1
    ELSE 0

\* C20: priority assignment -- the seed enters the frontier with priority 1;
\* every other URL enters it once, with the priority of the highest category
\* in which the page of the completing callback reports it (3 product,
\* 2 pagination or category, 1 other); the priority of an entry never changes.
C20_PriorityAssignment ==
    [][/\ \A k \in 1..Len(pendingUrls') :
             pendingUrls'[k].url \notin UrlsOf(pendingUrls) =>
                /\ \A n \in 1..Len(pendingUrls') : n # k => pendingUrls'[n].url # pendingUrls'[k].url
                /\ IF pc = "idle"
                   THEN pendingUrls'[k] = [url |-> normalizeUrl(startUrl'), priority |-> 1]
                   ELSE \E i \in DOMAIN tasks :
                           /\ tasks[i].st = "classify"
                           /\ tasks'[i].st = "done"
                           /\ pendingUrls'[k].priority \in {1, 2, 3}
                           /\ pendingUrls'[k].priority =
                                 HighestReported(urlCache'[tasks[i].url], tasks[i].base,
                                                 pendingUrls'[k].url)
       /\ \A u \in UrlsOf(pendingUrls) \cap UrlsOf(pendingUrls') :
             PriorityOf(pendingUrls', u) = PriorityOf(pendingUrls, u)]_vars

\* p/1, reported by the start page both as a product link and as a category
\* link, waits in the frontier with priority 3 next to entries of priority
\* 2 and 1
C20_Witness ==
    /\ normalizeUrl(RootUrl) \in DOMAIN urlCache
    /\ normalizeUrl(Lp1) \in KeysOf(urlCache[normalizeUrl(RootUrl)].productLinks, RootUrl)
    /\ normalizeUrl(Lp1) \in KeysOf(urlCache[normalizeUrl(RootUrl)].categoryLinks, RootUrl)
    /\ normalizeUrl(Lp1) \in PendingUrlSet
    /\ PriorityOf(pendingUrls, normalizeUrl(Lp1)) = 3
    /\ \E e \in PendingUrlSet : PriorityOf(pendingUrls, e) = 2
    /\ \E e \in PendingUrlSet : PriorityOf(pendingUrls, e) = 1

\* fetchPage of callback i has been called and has not settled
FetchInFlight(i) == tasks[i].st \in {"newPage", "goto", "close"}

\* C21: paired checkout and release -- a callback holds a session exactly
\* while its navigation is pending; the step that ends the navigation, on
\* every outcome, hands the session to releasePage (it is pooled, or its
\* close is started) and the callback never holds a session again; so with
\* no fetch in flight no session is checked out.
C21_PairedRelease ==
    /\ [](\A i \in DOMAIN tasks : tasks[i].page # 0 <=> tasks[i].st = "goto")
    /\ []((\A i \in DOMAIN tasks : ~FetchInFlight(i)) => CheckedOut = 0)
    /\ [][\A i \in DOMAIN tasks \cap DOMAIN tasks' :
            /\ (tasks[i].page # 0 /\ tasks'[i] # tasks[i]) =>
                  /\ tasks'[i].page = 0
                  /\ \/ pagePool' = Append(pagePool, tasks[i].page)
                     \/ tasks'[i].st = "close" /\ pagePool' = pagePool
            /\ (tasks[i].page = 0 /\ tasks[i].st # "newPage") => tasks'[i].page = 0]_vars

C21_Witness ==
    /\ pc = "batch"
    /\ \A i \in DOMAIN tasks : ~FetchInFlight(i)
    /\ CheckedOut = 0
    /\ \E i, j, k \in DOMAIN tasks :
          /\ tasks[i].st = "classify"
          /\ tasks[j].st = "done" /\ tasks[j].url \in failed
          /\ tasks[k].st = "done" /\ tasks[k].url \notin failed
                /\ tasks[k].url \notin DOMAIN urlCache /\ ~isResourceUrl(tasks[k].url)
    /\ Len(pagePool) = MAX_CONCURRENT_PAGES

\* callback i returns in this step because its fetch reported 404 or raised
FetchFails(i) ==
    /\ FetchInFlight(i)
    /\ tasks'[i].st = "done"
    /\ tasks[i].url \notin DOMAIN urlCache

\* C22: a failed URL contributes nothing -- the step in which the fetch of a
\* URL ends with 404 or an exception leaves the products, the frontier, the
\* visited set (which keeps the URL) and the cache as they are, and the
\* classifier is never called for that URL.
C22_FailedUrlContributesNothing ==
    /\ [][\A i \in DOMAIN tasks \cap DOMAIN tasks' :
            FetchFails(i) =>
               /\ products' = products
               /\ seenProductUrls' = seenProductUrls
               /\ pendingUrls' = pendingUrls
               /\ visitedUrls' = visitedUrls
               /\ tasks[i].url \in visitedUrls'
               /\ urlCache' = urlCache
               /\ classified' = classified]_vars
    /\ [](\A i \in DOMAIN tasks :
            (tasks[i].st = "done" /\ tasks[i].url \notin DOMAIN urlCache) =>
               /\ CopiesIn(tasks[i].url, classified) = 0
               /\ tasks[i].url \in visitedUrls
               /\ tasks[i].url \notin PendingUrlSet)

\* a batch in which one fetch raised and another reported 404
C22_Witness ==
    /\ pc = "batch"
    /\ PendingUrlSet # {}
    /\ \E i, j \in DOMAIN tasks :
          /\ tasks[i].st = "done" /\ tasks[i].url \in failed
          /\ tasks[i].url \notin DOMAIN urlCache
          /\ tasks[j].st = "done" /\ tasks[j].url \notin failed
          /\ tasks[j].url \notin DOMAIN urlCache /\ ~isResourceUrl(tasks[j].url)
          /\ CopiesIn(tasks[j].url, dispatched) = 1

\* the classifier call of callback i fails in this step
ClassifierFails(i) ==
    /\ tasks[i].st = "classify"
    /\ tasks[i].url \in failed' \ failed

\* C23: classifier failure degrades to "other" -- when the classifier call
\* of a URL fails, the analysis used and cached for it has pageType other,
\* no product and no links; the step adds no product and no frontier entry,
\* the callback returns and the run does not throw.
C23_ClassifierDegrades ==
    /\ [][\A i \in DOMAIN tasks \cap DOMAIN tasks' :
            ClassifierFails(i) =>
               /\ urlCache'[tasks[i].url].pageType = "other"
               /\ urlCache'[tasks[i].url].product = NoProduct
               /\ LinksOf(urlCache'[tasks[i].url]) = {}
               /\ products' = products
               /\ pendingUrls' = pendingUrls
               /\ visitedUrls' = visitedUrls
               /\ tasks'[i].st = "done"
               /\ pc' = "batch"]_vars
    /\ [](\A u \in failed \cap DOMAIN urlCache : urlCache[u] = FailedAnalysis)

\* a run that returned its products although the classifier failed on a page
C23_Witness ==
    /\ pc = "returned"
    /\ result.error = NoError
    /\ Len(result.products) > 0
    /\ \E u \in failed \cap DOMAIN urlCache :
          /\ CopiesIn(u, classified) = 1
          /\ PageAnalyses(u) # {FailedAnalysis}

\* the callbacks of the current batch whose URL is a resource URL
Skipped == {i \in DOMAIN tasks : isResourceUrl(tasks[i].url)}

\* C24: resource URLs are skipped before any cost -- the callback of a
\* dequeued resource URL is done as soon as the batch is taken, holds no
\* session and never moves; the sessions taken from the pool at that moment
\* go to the other callbacks only; a resource URL is never dispatched to the
\* renderer, never classified and never cached, and every step that changes
\* the products or the frontier during a batch is the step of a callback of
\* another URL.
C24_ResourceSkipped ==
    /\ [](\A i \in Skipped : tasks[i] = NoTask(tasks[i].url))
    /\ [](\A u \in BagToSet(popped) :
            isResourceUrl(u) =>
               /\ CopiesIn(u, dispatched) = 0
               /\ CopiesIn(u, classified) = 0
               /\ u \notin DOMAIN urlCache
               /\ u \notin failed)
    /\ [][(pc = "loop" /\ pc' = "batch") =>
            Len(pagePool) - Len(pagePool') =
               Cardinality({i \in DOMAIN tasks' : tasks'[i].page # 0 /\ ~isResourceUrl(tasks'[i].url)})]_vars
    /\ [][(pc = "batch" /\ <<products, pendingUrls>>' # <<products, pendingUrls>>) =>
            \E i \in DOMAIN tasks \ Skipped : tasks'[i] # tasks[i]]_vars

\* a batch with a skipped resource URL next to a URL that is being fetched,
\* taken from a frontier that was longer than the pool
C24_Witness ==
    /\ pc = "batch"
    /\ Skipped # {}
    /\ \E j \in DOMAIN tasks \ Skipped : tasks[j].st = "goto"
    /\ Len(tasks) > MAX_CONCURRENT_PAGES
    /\ pagePool # <<>>

\* C25: independent overlapping runs -- while an invocation is in its loop
\* or has its fetch under way the browser is open, and the session an
\* invocation holds is a session of the open browser.
C25_IndependentRuns ==
    \A r \in Runs :
        /\ rPc[r] \in {"loop", "newPage", "goto"} => browser # 0
        /\ rPage[r] # 0 => rPage[r] = browser

\* C26: fetch budget -- the number of URLs taken from the frontier, and with
\* it the number of URLs dispatched to the renderer, never exceeds maxPages,
\* also when the visited set has grown beyond maxPages.
C26_FetchBudget ==
    /\ BagCardinality(popped) <= maxPages
    /\ BagCardinality(dispatched) <= BagCardinality(popped)
    /\ pc = "batch" => BagCardinality(popped) <= Cardinality(visitedUrls)

\* a run that ended with more URLs visited than its budget, after it had
\* fetched one page less than the budget
C26_Witness ==
    /\ pc = "returned"
    /\ maxPages >= 3
    /\ Cardinality(visitedUrls) > maxPages
    /\ BagCardinality(dispatched) = maxPages - 1

\* C27: products come from visited pages -- the url of every record of
\* CrawlResult.products is a member of CrawlResult.visitedUrls.
C27_ProductsVisited ==
    pc = "returned" =>
       \A k \in 1..Len(result.products) : result.products[k].url \in result.visitedUrls
====
